---- MODULE Spec2Model ----
(***************************************************************************)
(* Model of the gulp plugin `findUnusedFiles` (gulpfile.js, lines 297-418) *)
(* of web-scrobbler: a through2 object transform that classifies every     *)
(* file of the `connectors` directory, cross-references it with the        *)
(* connector registry or with the manifest, and emits an 'error' event     *)
(* for every file nobody refers to.                                        *)
(*                                                                         *)
(* Strings the code computes with (paths, suffixes, messages) are          *)
(* sequences of one-character strings, so that `path.basename`,            *)
(* `String.prototype.endsWith` and template-literal concatenation are      *)
(* computed and not assumed.                                               *)
(*                                                                         *)
(* The transform callback is synchronous, so one file is one atomic step.  *)
(* `this.emit('error', e)` is modelled as delivering e to the listener of  *)
(* the stream and returning, which is what the callback relies on when it  *)
(* goes on to `callback(null, file)`.                                      *)
(***************************************************************************)
EXTENDS Naturals, Sequences, FiniteSets

VARIABLES
    connectors,   \* the `connectors` option: an array of registry entries
    manifest,     \* the `manifest` option: an object
    fed,          \* history: the files written to the transform so far
    diagnostics,  \* messages of the 'error' events emitted for unused files
    forwarded,    \* files pushed downstream with callback(null, file)
    error,        \* the error that ended the stream, or "none"
    log,          \* history: per file of `fed`, what the callback called
    filePath,     \* argument of a stand-alone getFileType call
    fileType,     \* its result, a set holding the returned type
    pc            \* "scan" | "classify" | "classified"

vars ==
    <<connectors, manifest, fed, diagnostics, forwarded, error, log,
      filePath, fileType, pc>>

----------------------------------------------------------------------------
(* Bounds *)

MaxFiles ==
    3

MaxConnectors ==
    1

MaxResources ==
    1

MaxDepth ==
    1

----------------------------------------------------------------------------
(* Program constants *)

dummy_js ==
    <<"d", "u", "m", "m", "y", ".", "j", "s">>

eslintrc_yml ==
    <<".", "e", "s", "l", "i", "n", "t", "r", "c", ".", "y", "m", "l">>

serviceFiles ==
    <<dummy_js, eslintrc_yml>>

domInjectSuffix ==
    <<"d", "o", "m", "-", "i", "n", "j", "e", "c", "t", ".", "j", "s">>

TYPE_DOM_INJECT_SCRIPT ==
    0

TYPE_CONNECTOR_SCRIPT ==
    1

TYPE_FILE_OTHER ==
    2

connectorsPrefix ==
    <<"c", "o", "n", "n", "e", "c", "t", "o", "r", "s", "/">>

UnusedFilePrefix ==
    <<"U", "n", "u", "s", "e", "d", " ", "f", "i", "l", "e", ":", " ">>

StreamingNotSupported ==
    "Streaming not supported"

TypeError ==
    "TypeError"

----------------------------------------------------------------------------
(* String helpers of the runtime *)

Slash ==
    "/"

RECURSIVE stripTrailingSlashes(_)
stripTrailingSlashes(p) ==
    IF Len(p) > 0 /\ p[Len(p)] = Slash
    THEN stripTrailingSlashes(SubSeq(p, 1, Len(p) - 1))
    ELSE p

RECURSIVE lastSegment(_)
lastSegment(p) ==
    IF \E i \in 1..Len(p) : p[i] = Slash
    THEN lastSegment(Tail(p))
    ELSE p

\* path.basename (POSIX): the part after the last separator, trailing
\* separators ignored.
basename(p) ==
    lastSegment(stripTrailingSlashes(p))

\* String.prototype.endsWith
endsWith(s, suffix) ==
    /\ Len(s) >= Len(suffix)
    /\ SubSeq(s, Len(s) - Len(suffix) + 1, Len(s)) = suffix

\* Array.prototype.includes
includes(arr, x) ==
    \E i \in 1..Len(arr) : arr[i] = x

----------------------------------------------------------------------------
(* The module-level functions *)

getRelativeFilePath(absFilePath) ==
    connectorsPrefix \o basename(absFilePath)

\* Mutant: the suffix test replaced by equality with the base name.
getFileType_suffixEquality(path) ==
    LET fileName == basename(path)
    IN  IF fileName = domInjectSuffix
        THEN TYPE_DOM_INJECT_SCRIPT
        ELSE IF ~includes(serviceFiles, fileName)
             THEN TYPE_CONNECTOR_SCRIPT
             ELSE TYPE_FILE_OTHER

\* Mutant: the service-file lookup done with the path, not the base name.
getFileType_serviceByPath(path) ==
    IF endsWith(path, domInjectSuffix)
    THEN TYPE_DOM_INJECT_SCRIPT
    ELSE IF ~includes(serviceFiles, path)
         THEN TYPE_CONNECTOR_SCRIPT
         ELSE TYPE_FILE_OTHER


getFileType(path) ==
    LET fileName == basename(path)
    IN  IF endsWith(path, domInjectSuffix)
        THEN TYPE_DOM_INJECT_SCRIPT
        ELSE IF ~includes(serviceFiles, fileName)
             THEN TYPE_CONNECTOR_SCRIPT
             ELSE TYPE_FILE_OTHER

----------------------------------------------------------------------------
(* The closures of findUnusedFiles({ connectors, manifest }) *)

\* entry.js is undefined on an entry without the field, and undefined is
\* never === a string.
entryJsEquals(entry, relFilePath) ==
    /\ "js" \in DOMAIN entry
    /\ entry.js = relFilePath

\* Mutant: `every` in place of `some`.
isConnectorFileUsed_every(relFilePath) ==
    \A i \in 1..Len(connectors) : entryJsEquals(connectors[i], relFilePath)


isConnectorFileUsed(relFilePath) ==
    \E i \in 1..Len(connectors) : entryJsEquals(connectors[i], relFilePath)

\* Mutant: the connector registry accepted as a reference too.
isDomInjectScriptUsed_orConnectors(relFilePath) ==
    IF "web_accessible_resources" \in DOMAIN manifest
    THEN [threw |-> FALSE,
          value |-> \/ \E i \in 1..Len(manifest.web_accessible_resources) :
                          manifest.web_accessible_resources[i] = relFilePath
                    \/ \E i \in 1..Len(connectors) :
                          entryJsEquals(connectors[i], relFilePath)]
    ELSE [threw |-> TRUE, value |-> FALSE]

\* Mutant: a missing list read as an empty one
\* (`(manifest.web_accessible_resources || []).some(...)`).
isDomInjectScriptUsed_missingIsEmpty(relFilePath) ==
    IF "web_accessible_resources" \in DOMAIN manifest
    THEN [threw |-> FALSE,
          value |-> \E i \in 1..Len(manifest.web_accessible_resources) :
                        manifest.web_accessible_resources[i] = relFilePath]
    ELSE [threw |-> FALSE, value |-> FALSE]

\* manifest.web_accessible_resources.some(...): reading `.some` of undefined
\* throws a TypeError.
isDomInjectScriptUsed(relFilePath) ==
    IF "web_accessible_resources" \in DOMAIN manifest
    THEN [threw |-> FALSE,
          value |-> \E i \in 1..Len(manifest.web_accessible_resources) :
                        manifest.web_accessible_resources[i] = relFilePath]
    ELSE [threw |-> TRUE, value |-> FALSE]

\* Mutant: no default branch, other files checked as connector scripts.
isFileUsed_noDefault(relFilePath) ==
    LET t == getFileType(relFilePath)
    IN  IF t = TYPE_DOM_INJECT_SCRIPT
        THEN [type |-> {t}, callee |-> "isDomInjectScriptUsed",
              threw |-> isDomInjectScriptUsed(relFilePath).threw,
              value |-> isDomInjectScriptUsed(relFilePath).value]
        ELSE [type |-> {t}, callee |-> "isConnectorFileUsed", threw |-> FALSE,
              value |-> isConnectorFileUsed(relFilePath)]

\* The switch of isFileUsed; besides the result, the record tells the type
\* getFileType returned and which closure the switch called.
isFileUsed(relFilePath) ==
    LET t == getFileType(relFilePath)
    IN  IF t = TYPE_CONNECTOR_SCRIPT
        THEN [type |-> {t}, callee |-> "isConnectorFileUsed", threw |-> FALSE,
              value |-> isConnectorFileUsed(relFilePath)]
        ELSE IF t = TYPE_DOM_INJECT_SCRIPT
             THEN [type |-> {t}, callee |-> "isDomInjectScriptUsed",
                   threw |-> isDomInjectScriptUsed(relFilePath).threw,
                   value |-> isDomInjectScriptUsed(relFilePath).value]
             ELSE [type |-> {t}, callee |-> "none", threw |-> FALSE,
                   value |-> TRUE]

\* Mutant: the null check lost.
isNull_never(file) ==
    FALSE

\* Vinyl: file.isNull() and file.isStream()
isNull(file) ==
    file.contents = "null"

\* Mutant: the stream check lost.
isStream_never(file) ==
    FALSE


isStream(file) ==
    file.contents = "stream"

\* `Unused file: ${relFilePath}`
resultOutput(relFilePath) ==
    UnusedFilePrefix \o relFilePath

\* Mutant: only the first unused file is reported.
emitError_firstOnly(emitted, message) ==
    IF emitted = <<>> THEN Append(emitted, message) ELSE emitted

\* this.emit('error', new PluginError(pluginName, resultOutput, ...))
emitError(emitted, message) ==
    Append(emitted, message)

\* Mutant: `callback()` without the file.
callbackFile_dropped(pushed, file) ==
    pushed

\* callback(null, file)
callbackFile(pushed, file) ==
    Append(pushed, file)

----------------------------------------------------------------------------
(* Inputs *)

a_js ==
    <<"a", ".", "j", "s">>

A_js ==
    <<"A", ".", "j", "s">>

x_dom_inject_js ==
    <<"x", "-", "d", "o", "m", "-", "i", "n", "j", "e", "c", "t", ".", "j", "s">>

dom_inject_jsx ==
    <<"d", "o", "m", "-", "i", "n", "j", "e", "c", "t", ".", "j", "s", "x">>

xdummy_js ==
    <<"x", "d", "u", "m", "m", "y", ".", "j", "s">>

om_inject_js ==
    <<"o", "m", "-", "i", "n", "j", "e", "c", "t", ".", "j", "s">>

seg_connectors ==
    <<"c", "o", "n", "n", "e", "c", "t", "o", "r", "s">>

seg_s ==
    <<"s">>

SeqsUpTo(S, n) ==
    UNION {[1..k -> S] : k \in 0..n}

\* Registry entries: two with a `js` field, one without.
EntryPool ==
    {[js |-> connectorsPrefix \o a_js],
     [js |-> connectorsPrefix \o x_dom_inject_js],
     [label |-> seg_s]}

ConnectorRegistries ==
    SeqsUpTo(EntryPool, MaxConnectors)

ResourcePool ==
    {connectorsPrefix \o x_dom_inject_js, connectorsPrefix \o a_js}

\* Manifests with a resource list, and one without the field.
Manifests ==
    {[name |-> "web-scrobbler"]}
    \cup {[name |-> "web-scrobbler", web_accessible_resources |-> r] :
             r \in SeqsUpTo(ResourcePool, MaxResources)}

\* Files the enumerator may deliver: absolute and relative paths, with
\* buffer, null or stream contents.
FilePool ==
    {[path |-> <<Slash>> \o seg_s \o <<Slash>> \o a_js, contents |-> "buffer"],
     [path |-> seg_s \o <<Slash>> \o A_js, contents |-> "buffer"],
     [path |-> <<Slash>> \o seg_s \o <<Slash>> \o x_dom_inject_js,
      contents |-> "buffer"],
     [path |-> <<Slash>> \o seg_s \o <<Slash>> \o seg_s \o <<Slash>> \o dummy_js,
      contents |-> "buffer"],
     [path |-> eslintrc_yml, contents |-> "buffer"],
     [path |-> <<Slash>> \o seg_s \o <<Slash>> \o x_dom_inject_js,
      contents |-> "null"],
     [path |-> <<Slash>> \o seg_s \o <<Slash>> \o x_dom_inject_js,
      contents |-> "stream"]}

----------------------------------------------------------------------------
(* The transform: through.obj(function(file, encoding, callback) {...}) *)

NoCall ==
    [type |-> {}, callee |-> "none", verdict |-> "none"]

Init ==
    /\ connectors \in ConnectorRegistries
    /\ manifest \in Manifests
    /\ fed = <<>>
    /\ diagnostics = <<>>
    /\ forwarded = <<>>
    /\ error = "none"
    /\ log = <<>>
    /\ filePath = <<>>
    /\ fileType = {}
    /\ pc = "scan"

\* A file arrives only while the stream is alive: after callback(err) or
\* after an exception the callback of the failed chunk never completes and
\* no further chunk is transformed.
Arrives(file) ==
    /\ pc = "scan"
    /\ error = "none"
    /\ Len(fed) < MaxFiles
    /\ fed' = Append(fed, file)
    /\ UNCHANGED <<connectors, manifest, filePath, fileType, pc>>

transformNull(file) ==
    /\ Arrives(file)
    /\ isNull(file)
    /\ forwarded' = callbackFile(forwarded, file)
    /\ log' = Append(log, NoCall)
    /\ UNCHANGED <<diagnostics, error>>

transformStream(file) ==
    /\ Arrives(file)
    /\ ~isNull(file)
    /\ isStream(file)
    /\ error' = StreamingNotSupported
    /\ log' = Append(log, NoCall)
    /\ UNCHANGED <<diagnostics, forwarded>>

transformBuffer(file) ==
    /\ Arrives(file)
    /\ ~isNull(file)
    /\ ~isStream(file)
    /\ LET relFilePath == getRelativeFilePath(file.path)
           used == isFileUsed(relFilePath)
       IN  IF used.threw
           THEN /\ error' = TypeError
                /\ log' = Append(log, [type |-> used.type,
                                       callee |-> used.callee,
                                       verdict |-> "TypeError"])
                /\ UNCHANGED <<diagnostics, forwarded>>
           ELSE /\ diagnostics' =
                       IF ~used.value
                       THEN emitError(diagnostics, resultOutput(relFilePath))
                       ELSE diagnostics
                /\ forwarded' = callbackFile(forwarded, file)
                /\ log' = Append(log, [type |-> used.type,
                                       callee |-> used.callee,
                                       verdict |-> IF used.value
                                                   THEN "Used"
                                                   ELSE "Unused"])
                /\ UNCHANGED error

Next ==
    \/ \E file \in FilePool : transformNull(file)
    \/ \E file \in FilePool : transformStream(file)
    \/ \E file \in FilePool : transformBuffer(file)

Spec ==
    Init /\ [][Next]_vars

----------------------------------------------------------------------------
(* getFileType on its own: a path is drawn, then classified *)

SegPool ==
    {seg_connectors, seg_s, dummy_js, x_dom_inject_js}

RECURSIVE joinDir(_)
joinDir(segs) ==
    IF segs = <<>> THEN <<>> ELSE Head(segs) \o <<Slash>> \o joinDir(Tail(segs))

\* Directory prefixes: relative and absolute, up to MaxDepth segments.
DirPool ==
    {joinDir(d) : d \in SeqsUpTo(SegPool, MaxDepth)}
    \cup {<<Slash>> \o joinDir(d) : d \in SeqsUpTo(SegPool, MaxDepth)}

BasenamePool ==
    {a_js, A_js, dummy_js, eslintrc_yml, domInjectSuffix, x_dom_inject_js,
     dom_inject_jsx, xdummy_js, om_inject_js}

\* Identifiers of the form <directory>/<basename>.
PathPool ==
    {d \o b : d \in DirPool, b \in BasenamePool}

InitClassify ==
    /\ connectors = <<>>
    /\ manifest = [name |-> "web-scrobbler"]
    /\ fed = <<>>
    /\ diagnostics = <<>>
    /\ forwarded = <<>>
    /\ error = "none"
    /\ log = <<>>
    /\ filePath \in PathPool
    /\ fileType = {}
    /\ pc = "classify"

classify ==
    /\ pc = "classify"
    /\ fileType' = {getFileType(filePath)}
    /\ pc' = "classified"
    /\ UNCHANGED <<connectors, manifest, fed, diagnostics, forwarded, error,
                   log, filePath>>

NextClassify ==
    classify

SpecClassify ==
    InitClassify /\ [][NextClassify]_vars

----------------------------------------------------------------------------
(* Vocabulary of the properties, stated without the functions above *)

Range(seq) ==
    {seq[i] : i \in 1..Len(seq)}

Last(seq) ==
    seq[Len(seq)]

ServiceNames ==
    {dummy_js, eslintrc_yml}

HasDomInjectSuffix(name) ==
    /\ Len(name) >= Len(domInjectSuffix)
    /\ \A k \in 1..Len(domInjectSuffix) :
          name[Len(name) - Len(domInjectSuffix) + k] = domInjectSuffix[k]

RelativeIdentifier(file) ==
    connectorsPrefix \o basename(file.path)

WellFormedManifest ==
    "web_accessible_resources" \in DOMAIN manifest

JsValues ==
    {connectors[k].js : k \in {j \in 1..Len(connectors) :
                                  "js" \in DOMAIN connectors[j]}}

Resources ==
    IF WellFormedManifest THEN Range(manifest.web_accessible_resources) ELSE {}

IsDomInjectFile(file) ==
    HasDomInjectSuffix(basename(file.path))

IsServiceFile(file) ==
    basename(file.path) \in ServiceNames

IsConnectorFile(file) ==
    ~IsDomInjectFile(file) /\ ~IsServiceFile(file)

\* The verdict Unused, for a file with buffer contents and a well-formed
\* manifest.
UnusedFile(file) ==
    /\ file.contents = "buffer"
    /\ \/ IsConnectorFile(file) /\ RelativeIdentifier(file) \notin JsValues
       \/ IsDomInjectFile(file) /\ RelativeIdentifier(file) \notin Resources

RECURSIVE ExpectedDiagnostics(_)
ExpectedDiagnostics(files) ==
    IF files = <<>>
    THEN <<>>
    ELSE IF UnusedFile(Head(files))
         THEN <<UnusedFilePrefix \o RelativeIdentifier(Head(files))>>
              \o ExpectedDiagnostics(Tail(files))
         ELSE ExpectedDiagnostics(Tail(files))

\* A step in which the transform received one more file.
Received ==
    Len(fed') = Len(fed) + 1

----------------------------------------------------------------------------
(* Properties *)

\* C1: with a well-formed manifest, the diagnostics emitted are exactly the
\* messages "Unused file: <relative identifier>" of the unused files among
\* the files fed, one each and in arrival order; the scan goes on after an
\* unused file, and no unused file means no diagnostic.
C1_DiagnosticsAreTheUnusedFilesInOrder ==
    (pc = "scan" /\ WellFormedManifest)
        => diagnostics = ExpectedDiagnostics(fed)

\* Three files scanned, the first and the third unused, a used connector
\* script between them, both reported.
C1_Witness ==
    /\ WellFormedManifest
    /\ Len(fed) = 3
    /\ UnusedFile(fed[1])
    /\ fed[2].contents = "buffer" /\ IsConnectorFile(fed[2])
    /\ ~UnusedFile(fed[2])
    /\ UnusedFile(fed[3])
    /\ Len(diagnostics) = 2

\* C2: a file classified as a connector script is Used exactly when some
\* registry entry's js equals its relative identifier, character for
\* character; only the connector registry is asked, never the manifest, so
\* it is Unused with an empty registry whatever the manifest is.
C2_ConnectorScriptUsedIffInRegistry ==
    \A i \in 1..Len(log) :
        TYPE_CONNECTOR_SCRIPT \in log[i].type
            => /\ log[i].verdict \in {"Used", "Unused"}
               /\ log[i].verdict = "Used"
                    <=> \E k \in 1..Len(connectors) :
                           /\ "js" \in DOMAIN connectors[k]
                           /\ connectors[k].js = RelativeIdentifier(fed[i])
               /\ log[i].callee = "isConnectorFileUsed"
               /\ connectors = <<>> => log[i].verdict = "Unused"

\* A connector script is Unused although the registry has an entry (it
\* differs in case, or names another file), under a manifest without a
\* resource list, which would have thrown had it been read.
C2_Witness ==
    /\ ~WellFormedManifest
    /\ connectors # <<>>
    /\ \E i \in 1..Len(log) :
          /\ TYPE_CONNECTOR_SCRIPT \in log[i].type
          /\ log[i].verdict = "Unused"
          /\ basename(fed[i].path) = A_js
    /\ error = "none"

\* C3: with a well-formed manifest, a file classified as a DOM-inject script
\* is Used exactly when web_accessible_resources contains its relative
\* identifier; only the manifest is asked, so a js entry of the connector
\* registry does not make it Used.
C3_DomInjectScriptUsedIffInManifest ==
    \A i \in 1..Len(log) :
        (TYPE_DOM_INJECT_SCRIPT \in log[i].type /\ WellFormedManifest)
            => /\ log[i].verdict \in {"Used", "Unused"}
               /\ log[i].verdict = "Used"
                    <=> \E k \in 1..Len(manifest.web_accessible_resources) :
                           manifest.web_accessible_resources[k]
                               = RelativeIdentifier(fed[i])
               /\ log[i].callee = "isDomInjectScriptUsed"

\* A DOM-inject script that only the connector registry names is Unused.
C3_Witness ==
    /\ WellFormedManifest
    /\ \E i \in 1..Len(log) :
          /\ TYPE_DOM_INJECT_SCRIPT \in log[i].type
          /\ RelativeIdentifier(fed[i]) \in JsValues
          /\ log[i].verdict = "Unused"
          /\ UnusedFilePrefix \o RelativeIdentifier(fed[i])
                 \in Range(diagnostics)

\* C4: a file classified Other is Used whatever the registry and the
\* manifest hold, neither is asked, and no diagnostic names it.
C4_OtherFileAlwaysUsed ==
    \A i \in 1..Len(log) :
        TYPE_FILE_OTHER \in log[i].type
            => /\ log[i].verdict = "Used"
               /\ log[i].callee = "none"
               /\ UnusedFilePrefix \o RelativeIdentifier(fed[i])
                      \notin Range(diagnostics)
               /\ fed[i] \in Range(forwarded)

\* A service file scanned with an empty registry and a manifest without a
\* resource list.
C4_Witness ==
    /\ connectors = <<>>
    /\ ~WellFormedManifest
    /\ \E i \in 1..Len(log) :
          /\ TYPE_FILE_OTHER \in log[i].type
          /\ IsServiceFile(fed[i])
    /\ error = "none"

\* C5: getFileType returns exactly one of the three types for every
\* identifier: the DOM-inject type when the base name ends in dom-inject.js,
\* whatever the directory, and the connector type for every other base name
\* that is no service file.
C5_ClassificationByBasename ==
    pc = "classified"
        => /\ fileType \in {{TYPE_DOM_INJECT_SCRIPT}, {TYPE_CONNECTOR_SCRIPT},
                            {TYPE_FILE_OTHER}}
           /\ HasDomInjectSuffix(basename(filePath))
                => fileType = {TYPE_DOM_INJECT_SCRIPT}
           /\ (/\ ~HasDomInjectSuffix(basename(filePath))
               /\ basename(filePath) \notin ServiceNames)
                => fileType = {TYPE_CONNECTOR_SCRIPT}

\* A path with a directory whose base name is longer than the suffix and
\* ends in it was classified.
C5_Witness ==
    /\ pc = "classified"
    /\ basename(filePath) = x_dom_inject_js
    /\ Len(filePath) > Len(x_dom_inject_js)
    /\ fileType = {TYPE_DOM_INJECT_SCRIPT}

\* C6: every base name of the service-file set is classified Other.
C6_ServiceFilesAreOther ==
    (pc = "classified" /\ basename(filePath) \in ServiceNames)
        => fileType = {TYPE_FILE_OTHER}

\* dummy.js below a directory was classified.
C6_Witness ==
    /\ pc = "classified"
    /\ basename(filePath) = dummy_js
    /\ Len(filePath) > Len(dummy_js)
    /\ fileType = {TYPE_FILE_OTHER}

\* C7: when the manifest has no web_accessible_resources and a DOM-inject
\* file with contents is scanned, the step raises an error that is not an
\* unused-file diagnostic: nothing is emitted for the file, it is not
\* forwarded, it gets no verdict, and no file is handled afterwards.
C7_MissingResourceListRaises ==
    [][/\ (/\ Received
           /\ ~WellFormedManifest
           /\ Last(fed').contents = "buffer"
           /\ IsDomInjectFile(Last(fed')))
          => /\ error' = TypeError
             /\ diagnostics' = diagnostics
             /\ forwarded' = forwarded
             /\ Last(log').verdict \notin {"Used", "Unused"}
       /\ error = TypeError => UNCHANGED vars]_vars

\* The error was raised by a DOM-inject file scanned after another file.
C7_Witness ==
    /\ ~WellFormedManifest
    /\ error = TypeError
    /\ Len(fed) = 2
    /\ IsDomInjectFile(fed[2])
    /\ Len(forwarded) = 1
    /\ diagnostics = <<>>

\* C8: a file that is inspected (its contents are a buffer and its verdict
\* is computed) is appended downstream, itself, in the step that inspects
\* it, whether Used or Unused; the step changes neither the files fed
\* before, nor the connector registry, nor the manifest.
C8_InspectedFilesPassThrough ==
    [][(/\ Received
        /\ Last(fed').contents = "buffer"
        /\ IsDomInjectFile(Last(fed')) => WellFormedManifest)
          => /\ forwarded' = Append(forwarded, Last(fed'))
             /\ SubSeq(fed', 1, Len(fed)) = fed
             /\ connectors' = connectors
             /\ manifest' = manifest]_vars

\* Three files with contents went through, one of them unused.
C8_Witness ==
    /\ Len(fed) = 3
    /\ forwarded = fed
    /\ \A i \in 1..3 : fed[i].contents = "buffer"
    /\ WellFormedManifest
    /\ UnusedFile(fed[2])
    /\ Len(diagnostics) >= 1

\* C9: a file whose contents are a stream ends the stream with "Streaming
\* not supported": it is not classified, not resolved, not reported, not
\* forwarded, and no file is handled afterwards.
C9_StreamContentsRejected ==
    [][/\ (Received /\ Last(fed').contents = "stream")
          => /\ error' = StreamingNotSupported
             /\ Last(log') = NoCall
             /\ diagnostics' = diagnostics
             /\ forwarded' = forwarded
       /\ error = StreamingNotSupported => UNCHANGED vars]_vars

\* A stream file arrived after a file that went through.
C9_Witness ==
    /\ error = StreamingNotSupported
    /\ Len(fed) = 2
    /\ fed[2].contents = "stream"
    /\ forwarded = <<fed[1]>>

\* C10: a file with null contents is forwarded without being classified or
\* resolved: no diagnostic, no error, whatever the registries hold.
C10_NullContentsPassThrough ==
    [][(Received /\ Last(fed').contents = "null")
          => /\ forwarded' = Append(forwarded, Last(fed'))
             /\ Last(log') = NoCall
             /\ diagnostics' = diagnostics
             /\ error' = "none"]_vars

\* A null DOM-inject file nobody refers to went through under a manifest
\* without a resource list.
C10_Witness ==
    /\ ~WellFormedManifest
    /\ Len(fed) >= 1
    /\ fed[1].contents = "null"
    /\ IsDomInjectFile(fed[1])
    /\ RelativeIdentifier(fed[1]) \notin JsValues
    /\ forwarded = <<fed[1]>>
    /\ diagnostics = <<>>
    /\ error = "none"

====
